---- MODULE Spec2Model ----
(***************************************************************************)
(* Module resolution and the caching service host of the check-types rule  *)
(* (src/src/check-types.ts, src/src/utils.ts).                             *)
(*                                                                         *)
(* Strings are modelled structurally.  A file-system path is the sequence  *)
(* of its segments; a segment is the sequence of its dot-separated tokens, *)
(* so "b.d.ts" is <<"b", ".d", ".ts">> and `target + extension` appends    *)
(* the extension's tokens to the last segment.  A module specifier is a    *)
(* record [abs, segs]: abs tells whether the text starts with "/".         *)
(* A value that may be undefined is a record, Undefined being one of them. *)
(***************************************************************************)
EXTENDS Integers, Sequences, FiniteSets, TLC

VARIABLES
  files,        \* the regular files of the file system (fs.statSync(..).isFile())
  manifests,    \* directory -> raw content of its package.json
  options,      \* the CompilerOptions the engine passes to resolveModuleNames
  modulePaths,  \* ESLintServiceHost.modulePaths
  moduleCache,  \* ESLintServiceHost.moduleCache
  nextObj,      \* number of ResolvedModuleFull objects created so far
  history,      \* the resolveModuleNames calls made so far, with what they returned
  fm,           \* the last direct findModule call and what it returned
  disk,         \* file name -> text of the file (fs.readFileSync)
  snapshots,    \* ESLintServiceHost.snapshots: file name -> ScriptSnapshot object
  objects,      \* the ScriptSnapshot objects created so far, by identity
  log,          \* the snapshot calls made so far, with what they returned
  configs,      \* tsconfig.json file -> whether decodeConfig accepts its text
  projectMap,   \* projectMap: config file -> ESLintProject
  diagnosticsMap, \* diagnosticsMap: file name -> Diagnostic[] | undefined
  hosts,        \* the ESLintServiceHost objects constructed so far, by identity
  visits,       \* the checkTypes calls made so far, with what they did
  diagnostic,   \* the diagnostic handed to a direct reportDiagnostic call
  reported,     \* what that call passed to context.report
  loopFile,     \* the containingFile of a search-path loop of the JavaScript host
  loopRoot,     \* this.projectRoot of that host
  loopDir,      \* the loop's `dir`
  lookupPaths,  \* the loop's array of search directories
  loopPc,       \* where the host is: "new", "loop" or "done"
  genStart,     \* the argument of a parents(directory) generator
  genDirectory, \* the generator's `directory`
  yielded,      \* what the generator has yielded so far
  genPc,        \* where the generator is: "loop", "last" or "done"
  pluginDir,    \* path.dirname(__filename): where the plugin is installed
  globalPaths   \* the constructor's globalPaths of the host of the loop

resolverVars == <<files, manifests, options, modulePaths, moduleCache, nextObj, history, fm>>
snapshotVars == <<disk, snapshots, objects, log>>

lintVars == <<configs, projectMap, diagnosticsMap, hosts, visits>>
reportVars == <<diagnostic, reported>>

walkVars == <<loopFile, loopRoot, loopDir, lookupPaths, loopPc,
              genStart, genDirectory, yielded, genPc, pluginDir, globalPaths>>

vars == <<resolverVars, snapshotVars, lintVars, reportVars, walkVars>>

----------------------------------------------------------------------------
(* Values *)

Undefined == [undefined |-> TRUE]
Null == [null |-> TRUE]
NoCall == [nocall |-> TRUE]

Str(p) == [path |-> p]
Txt(tokens) == [text |-> tokens]
List(s) == [list |-> s]

Seg(s) == <<s>>
Dot == <<".">>
DotDot == <<"..">>

Rel(segs) == [abs |-> FALSE, segs |-> segs]
Abs(segs) == [abs |-> TRUE, segs |-> segs]

ExtTs == Txt(<<".ts">>)
ExtTsx == Txt(<<".tsx">>)
ExtDts == Txt(<<".d", ".ts">>)
ExtJs == Txt(<<".js">>)
ExtJsx == Txt(<<".jsx">>)
ExtJson == Txt(<<".json">>)

\* Mutant: the declaration extension is forgotten.
TS_EXTENSIONS_noDts == <<ExtTs, ExtTsx>>

TS_EXTENSIONS == <<ExtTs, ExtTsx, ExtDts>>
JS_EXTENSIONS == <<ExtJs, ExtJsx, ExtJson>>

----------------------------------------------------------------------------
(* The path module of the runtime, on absolute POSIX paths *)

RECURSIVE normalizeFrom(_, _)
normalizeFrom(segs, acc) ==
  IF segs = <<>> THEN acc
  ELSE LET s == Head(segs) IN
       IF s = Dot THEN normalizeFrom(Tail(segs), acc)
       ELSE IF s = DotDot
            THEN normalizeFrom(Tail(segs),
                   IF acc = <<>> THEN <<>> ELSE SubSeq(acc, 1, Len(acc) - 1))
            ELSE normalizeFrom(Tail(segs), Append(acc, s))

\* path.join(directory, name): concatenate, then normalize; a leading "/" of
\* the second argument collapses into the separator.
pathJoin(directory, name) == normalizeFrom(directory \o name.segs, <<>>)

\* path.resolve(directory, name): an absolute second argument replaces the first.
pathResolve(directory, name) ==
  IF name.abs THEN normalizeFrom(name.segs, <<>>)
  ELSE normalizeFrom(directory \o name.segs, <<>>)

\* Mutant: a directory of the root has no parent but itself.
pathDirname_stuck(p) == IF Len(p) <= 1 THEN p ELSE SubSeq(p, 1, Len(p) - 1)

pathDirname(p) == IF p = <<>> THEN <<>> ELSE SubSeq(p, 1, Len(p) - 1)

pathBasename(p) == IF p = <<>> THEN Rel(<<>>) ELSE Rel(<<p[Len(p)]>>)

\* target + extension
plusExt(target, extension) ==
  IF target = <<>> THEN <<extension.text>>
  ELSE [target EXCEPT ![Len(target)] = @ \o extension.text]

\* name.startsWith(".")
startsWithDot(name) ==
  /\ ~name.abs
  /\ name.segs # <<>>
  /\ Head(name.segs)[1] \in {".", ".."}

----------------------------------------------------------------------------
(* utils.ts: package manifests *)

\* Mutant: a field that is not a string is taken for an absent one.
decodeField_lenient(root, raw) ==
  IF raw # Undefined /\ "str" \in DOMAIN raw
  THEN [ok |-> TRUE, value |-> Str(pathResolve(root, raw.str))]
  ELSE [ok |-> TRUE, value |-> Undefined]

\* PathDecoder / OptionalDecoder on one field of the manifest: an absent field
\* decodes to undefined, a string to path.resolve(root, str), anything else fails.
decodeField(root, raw) ==
  IF raw = Undefined THEN [ok |-> TRUE, value |-> Undefined]
  ELSE IF "str" \in DOMAIN raw
       THEN [ok |-> TRUE, value |-> Str(pathResolve(root, raw.str))]
       ELSE [ok |-> FALSE, value |-> Undefined]

\* Mutant: the decoder drops the type entry.
loadPackage_noTypings(directory) ==
  IF directory \notin DOMAIN manifests THEN Null
  ELSE LET raw == manifests[directory] IN
       IF raw.json # "object" THEN Null
       ELSE LET i == decodeField(directory, raw.index)
            IN IF i.ok THEN [index |-> i.value, typings |-> Undefined] ELSE Null

loadPackage(directory) ==
  IF directory \notin DOMAIN manifests THEN Null
  ELSE LET raw == manifests[directory] IN
       IF raw.json # "object" THEN Null
       ELSE LET i == decodeField(directory, raw.index)
                t == decodeField(directory, raw.typings)
            IN IF i.ok /\ t.ok
               THEN [index |-> i.value, typings |-> t.value]
               ELSE Null

----------------------------------------------------------------------------
(* check-types.ts: probing *)

isFile(name) ==
  IF name = Undefined THEN FALSE ELSE name.path \in files

Module(fileName, external, extension) ==
  [resolvedFileName |-> fileName,
   isExternalLibraryImport |-> external,
   extension |-> extension]

RECURSIVE findAnyFrom(_, _, _, _)
findAnyFrom(target, extensions, isGlobal, i) ==
  IF i > Len(extensions) THEN Undefined
  ELSE IF isFile(Str(plusExt(target, extensions[i])))
       THEN Module(plusExt(target, extensions[i]), isGlobal, extensions[i])
       ELSE findAnyFrom(target, extensions, isGlobal, i + 1)

findAny(target, extensions, isGlobal) == findAnyFrom(target, extensions, isGlobal, 1)

\* The engine's Extension enum: member name -> value.  Object.keys yields
\* the member names ("Ts", "Tsx", ...), not the extensions.
ExtensionEnum ==
  << <<Txt(<<"Ts">>), ExtTs>>, <<Txt(<<"Tsx">>), ExtTsx>>, <<Txt(<<"Dts">>), ExtDts>>,
     <<Txt(<<"Js">>), ExtJs>>, <<Txt(<<"Jsx">>), ExtJsx>>, <<Txt(<<"Json">>), ExtJson>>,
     <<Txt(<<"TsBuildInfo">>), Txt(<<".tsbuildinfo">>)>> >>

\* Extension[key]: undefined unless key is a member name.
enumIndex(key) ==
  IF \E i \in 1..Len(ExtensionEnum) : ExtensionEnum[i][1] = key
  THEN ExtensionEnum[CHOOSE i \in 1..Len(ExtensionEnum) : ExtensionEnum[i][1] = key][2]
  ELSE Undefined

\* name.startsWith(".") on the text of an absolute path, which starts with "/".
pathStartsWithDot(p) == FALSE

\* name.endsWith(key) on the text of a path: the tokens of key end the last segment.
pathEndsWith(p, key) ==
  /\ p # <<>>
  /\ Len(p[Len(p)]) >= Len(key.text)
  /\ SubSeq(p[Len(p)], Len(p[Len(p)]) - Len(key.text) + 1, Len(p[Len(p)])) = key.text

getExtensionFromFileName(name) ==
  LET matching == {i \in 1..Len(ExtensionEnum) :
                     pathStartsWithDot(name) /\ pathEndsWith(name, ExtensionEnum[i][1])}
  IN IF matching = {} THEN Undefined
     ELSE LET first == CHOOSE i \in matching : \A j \in matching : i <= j
          IN IF enumIndex(ExtensionEnum[first][1]) = Undefined THEN Undefined
             ELSE enumIndex(enumIndex(ExtensionEnum[first][1]))

\* a || b on values that are objects or undefined; b is evaluated only if needed.
orElse(a, b) == IF a = Undefined THEN b ELSE a

\* if (pkg && pkg[field] && isFile(pkg[field])) return { resolvedFileName:
\* pkg[field], ..., extension: getExtensionFromFileName(pkg[field]) || guess }
packageEntry(pkg, field, isGlobal, guess) ==
  IF pkg # Null /\ pkg[field] # Undefined /\ isFile(pkg[field])
  THEN Module(pkg[field].path, isGlobal,
              orElse(getExtensionFromFileName(pkg[field].path), guess))
  ELSE Undefined

findTypes(target) ==
  orElse(findAny(target, <<ExtDts>>, TRUE),
  orElse(packageEntry(loadPackage(target), "typings", TRUE, ExtDts),
         findAny(pathJoin(target, Rel(<<Seg("index")>>)), <<ExtDts>>, TRUE)))

RECURSIVE findInTypeRoots(_, _, _)
findInTypeRoots(typeRoots, name, i) ==
  IF i > Len(typeRoots) THEN Undefined
  ELSE orElse(findTypes(pathJoin(typeRoots[i], name)),
              findInTypeRoots(typeRoots, name, i + 1))

\* Mutant: the scripts next to the target are probed before target/index.
findModule_scriptsBeforeIndex(directory, name, typeRoots) ==
  LET target == pathJoin(directory, name)
      isGlobal == typeRoots # Undefined
      index == pathJoin(target, Rel(<<Seg("index")>>))
  IN orElse(findAny(target, TS_EXTENSIONS, isGlobal),
     orElse(packageEntry(loadPackage(target), "typings", isGlobal, ExtDts),
     orElse(IF typeRoots # Undefined
            THEN findInTypeRoots(typeRoots.list, name, 1)
            ELSE Undefined,
     orElse(findAny(target, JS_EXTENSIONS, isGlobal),
     orElse(findAny(index, TS_EXTENSIONS, isGlobal),
     orElse(packageEntry(loadPackage(target), "index", isGlobal, ExtJs),
            findAny(index, JS_EXTENSIONS, isGlobal)))))))

findModule(directory, name, typeRoots) ==
  LET target == pathJoin(directory, name)
      isGlobal == typeRoots # Undefined
      index == pathJoin(target, Rel(<<Seg("index")>>))
  IN orElse(findAny(target, TS_EXTENSIONS, isGlobal),
     orElse(packageEntry(loadPackage(target), "typings", isGlobal, ExtDts),
     orElse(IF typeRoots # Undefined
            THEN findInTypeRoots(typeRoots.list, name, 1)
            ELSE Undefined,
     orElse(findAny(index, TS_EXTENSIONS, isGlobal),
     orElse(findAny(target, JS_EXTENSIONS, isGlobal),
     orElse(packageEntry(loadPackage(target), "index", isGlobal, ExtJs),
            findAny(index, JS_EXTENSIONS, isGlobal)))))))

----------------------------------------------------------------------------
(* check-types.ts: ESLintServiceHost *)

RECURSIVE parents(_)
parents(directory) ==
  IF pathDirname(directory) = directory THEN <<directory>>
  ELSE <<directory>> \o parents(pathDirname(directory))

NodeModules == Rel(<<Seg("node_modules")>>)

\* Where the plugin file lives and what the runtime answers to
\* require.resolve.paths(__filename): the node_modules directory of every
\* ancestor of the plugin's directory, then the runtime's global directories.
PluginDir == <<Seg("plugin")>>
RuntimeGlobalPaths == << <<Seg("glob")>> >>

RECURSIVE nodeModulePaths(_)
nodeModulePaths(dirs) ==
  IF dirs = <<>> THEN <<>>
  ELSE (IF Head(dirs) # <<>> /\ Head(dirs)[Len(Head(dirs))] = Seg("node_modules")
        THEN <<>>
        ELSE <<pathJoin(Head(dirs), NodeModules)>>) \o nodeModulePaths(Tail(dirs))

\* require.resolve.paths(__filename) of a plugin installed in directory.
requireResolvePathsOf(directory) ==
  nodeModulePaths(parents(directory)) \o RuntimeGlobalPaths

requireResolvePaths == requireResolvePathsOf(PluginDir)

\* paths.slice(Array.from(parents(path.dirname(__filename))).length)
globalPathsOf(directory) ==
  LET paths == requireResolvePathsOf(directory)
  IN SubSeq(paths, Len(parents(directory)) + 1, Len(paths))

RECURSIVE projectPathsOf(_)
projectPathsOf(dirs) ==
  IF dirs = <<>> THEN <<>>
  ELSE <<pathJoin(Head(dirs), NodeModules)>> \o projectPathsOf(Tail(dirs))

\* Mutant: the global directories are put before the project's.
constructorModulePaths_globalsFirst(projectRoot) ==
  globalPathsOf(PluginDir) \o projectPathsOf(parents(projectRoot))

\* The constructor's modulePaths: the node_modules of the project root and of
\* its ancestors, then the caller's search list without its first N entries,
\* N being the number of ancestors of the plugin's directory.
constructorModulePaths(projectRoot) ==
  projectPathsOf(parents(projectRoot)) \o globalPathsOf(PluginDir)

\* A ResolvedModuleFull object: the value findModule built, with its identity.
Object(module, id) ==
  [resolvedFileName |-> module.resolvedFileName,
   isExternalLibraryImport |-> module.isExternalLibraryImport,
   extension |-> module.extension,
   obj |-> id]

\* options.types.includes(name)
\* Mutant: every name passes for listed.
includes_any(list, name) == TRUE

includes(list, name) == \E i \in 1..Len(list) : list[i] = name

\* Mutant: no type-root list at all is passed when type packages are not to
\* be checked, so findModule takes the lookup for a local one.
RECURSIVE searchGlobals_noList(_, _, _, _)
searchGlobals_noList(name, opts, globals, i) ==
  IF i > Len(globals) THEN Undefined
  ELSE LET checkTypesPackages ==
             opts.types = Undefined \/ includes(opts.types.list, name)
           typePackages ==
             IF checkTypesPackages
             THEN IF opts.typeRoots # Undefined
                  THEN opts.typeRoots
                  ELSE List(<<pathJoin(globals[i], Rel(<<Seg("@types")>>))>>)
             ELSE Undefined
       IN orElse(findModule(globals[i], name, typePackages),
                 searchGlobals_noList(name, opts, globals, i + 1))

RECURSIVE searchGlobals(_, _, _, _)
searchGlobals(name, opts, globals, i) ==
  IF i > Len(globals) THEN Undefined
  ELSE LET checkTypesPackages ==
             opts.types = Undefined \/ includes(opts.types.list, name)
           typePackages ==
             IF checkTypesPackages
             THEN IF opts.typeRoots # Undefined
                  THEN opts.typeRoots.list
                  ELSE <<pathJoin(globals[i], Rel(<<Seg("@types")>>))>>
             ELSE <<>>
       IN orElse(findModule(globals[i], name, List(typePackages)),
                 searchGlobals(name, opts, globals, i + 1))

\* Mutant: the target is joined, not normalized, before it is used as the key.
cacheKey_unnormalized(directory, name) ==
  IF startsWithDot(name) THEN Abs(directory \o name.segs) ELSE name

\* The key of the call in moduleCache: the resolved target of a relative
\* specifier, the specifier itself otherwise.  Both are strings of one Map.
cacheKey(directory, name) ==
  IF startsWithDot(name) THEN Abs(pathResolve(directory, name)) ELSE name

\* Mutant: the entry is overwritten with undefined after a hit was stored
\* (the final set(name, undefined) is reached on every path).
cacheSet_forgets(cache, key, computed, n) ==
  IF computed = Undefined
  THEN [result |-> Undefined, hit |-> FALSE,
        cache |-> cache @@ (key :> Undefined), nextObj |-> n]
  ELSE [result |-> Object(computed, n), hit |-> FALSE,
        cache |-> cache @@ (key :> Undefined), nextObj |-> n + 1]

\* this.moduleCache.set(key, result); return result -- result being a fresh
\* object unless it is undefined.
cacheSet(cache, key, computed, n) ==
  IF computed = Undefined
  THEN [result |-> Undefined, hit |-> FALSE,
        cache |-> cache @@ (key :> Undefined), nextObj |-> n]
  ELSE [result |-> Object(computed, n), hit |-> FALSE,
        cache |-> cache @@ (key :> Object(computed, n)), nextObj |-> n + 1]

\* One call of moduleLookup on cache `cache` with `n` objects created so far:
\* what it returns, the cache and the object count it leaves.
moduleLookup(directory, name, opts, globals, cache, n) ==
  LET key == cacheKey(directory, name)
      computed ==
        IF startsWithDot(name)
        THEN LET target == pathResolve(directory, name)
             IN findModule(pathDirname(target), pathBasename(target), Undefined)
        ELSE searchGlobals(name, opts, globals, 1)
  IN IF key \in DOMAIN cache
     THEN [result |-> cache[key], hit |-> TRUE, cache |-> cache, nextObj |-> n]
     ELSE cacheSet(cache, key, computed, n)

\* The moduleLookup function of the host without a cache: the same search,
\* computed at every call.
moduleLookupNoCache(directory, name, opts, globals) ==
  IF startsWithDot(name)
  THEN LET target == pathResolve(directory, name)
       IN findModule(pathDirname(target), pathBasename(target), Undefined)
  ELSE searchGlobals(name, opts, globals, 1)

\* moduleNames.map(name => this.moduleLookup(directory, name, ...)), left to right.
\* The accumulator holds the results so far and the host's cache and object count.
mapAppend(acc, one) ==
  [results |-> Append(acc.results, one.result), hits |-> Append(acc.hits, one.hit),
   cache |-> one.cache, nextObj |-> one.nextObj]

RECURSIVE mapLookup(_, _, _, _, _)
mapLookup(directory, names, opts, globals, acc) ==
  IF names = <<>> THEN acc
  ELSE mapLookup(directory, Tail(names), opts, globals,
                 mapAppend(acc, moduleLookup(directory, Head(names), opts, globals,
                                             acc.cache, acc.nextObj)))

\* The search roots resolveModuleNames hands to moduleLookup.
searchPath(containingFile) == modulePaths

MaxCalls == 2

ResolveModuleNames(moduleNames, containingFile) ==
  /\ Len(history) < MaxCalls
  /\ \E out \in {mapLookup(pathDirname(containingFile), moduleNames, options,
                            searchPath(containingFile),
                            [results |-> <<>>, hits |-> <<>>,
                             cache |-> moduleCache, nextObj |-> nextObj])} :
       /\ moduleCache' = out.cache
       /\ nextObj' = out.nextObj
       /\ history' = Append(history,
                            [containingFile |-> containingFile, moduleNames |-> moduleNames,
                             results |-> out.results, hits |-> out.hits])
  /\ UNCHANGED <<files, manifests, options, modulePaths, fm>>
  /\ UNCHANGED <<snapshotVars, lintVars, reportVars, walkVars>>

----------------------------------------------------------------------------
(* The host of the project rooted at /proj: scenarios and specification *)

MaxHostFiles == 2

Proj == <<Seg("proj")>>
ProjSrc == <<Seg("proj"), Seg("src")>>
TypeRoot == <<Seg("proj"), Seg("typings")>>
ProjectRoot == Proj

RelB == Rel(<<Dot, Seg("b")>>)
UpB == Rel(<<DotDot, Seg("b")>>)
RelBJson == Rel(<<Dot, <<"b", ".json">> >>)
Lib == Rel(<<Seg("lib")>>)
AbsB == Abs(<<Seg("proj"), Seg("b")>>)

Names == {RelB, UpB, RelBJson, Lib, AbsB}

ModuleNameLists == {<<n>> : n \in Names} \cup {<<Lib, RelB>>}

ContainingFiles ==
  {Proj \o << <<"a", ".ts">> >>, ProjSrc \o << <<"x", ".ts">> >>}

\* The manifest entries used by the scenarios, as written in package.json.
TypingsEntry == Rel(<<Seg("types"), <<"index", ".d", ".ts">> >>)
MainEntry == Rel(<< <<"main", ".js">> >>)

\* A package that ships its sources: "typings": "index.ts", "main": "index.jsx".
SourceTypingsEntry == Rel(<< <<"index", ".ts">> >>)
JsxMainEntry == Rel(<< <<"index", ".jsx">> >>)

LibPackage == pathJoin(pathJoin(Proj, NodeModules), Lib)

HostFiles ==
  {plusExt(Proj \o <<Seg("b")>>, ExtDts),
   plusExt(Proj \o <<Seg("b")>>, ExtJs),
   plusExt(Proj \o <<Seg("b")>>, ExtJson),
   plusExt(LibPackage \o <<Seg("index")>>, ExtJs),
   pathResolve(LibPackage, TypingsEntry),
   Proj \o <<Seg("node_modules"), Seg("@types"), Seg("lib"), <<"index", ".d", ".ts">> >>,
   Proj \o <<Seg("node_modules"), Seg("proj"), <<"b", ".d", ".ts">> >>,
   ProjSrc \o <<Seg("node_modules"), <<"lib", ".d", ".ts">> >>,
   <<Seg("glob"), <<"lib", ".d", ".ts">> >>}

Absent == [absent |-> TRUE]

RawFields(entry) == {Undefined, [str |-> entry], [nonstring |-> TRUE]}

RawManifests ==
  {[json |-> "invalid"]}
    \cup {[json |-> "object", typings |-> t, index |-> i] :
            t \in RawFields(TypingsEntry) \cup {[str |-> SourceTypingsEntry]},
            i \in RawFields(MainEntry) \cup {[str |-> JsxMainEntry]}}

ManifestsOver(dirs, choices) ==
  UNION {[D -> choices] : D \in SUBSET dirs}

HostManifests ==
  ManifestsOver({LibPackage},
                {[json |-> "object", typings |-> [str |-> TypingsEntry], index |-> Undefined]})

HostOptions ==
  {[types |-> t, typeRoots |-> Undefined] : t \in {Undefined, List(<<>>), List(<<Lib>>)}}

EmptyMap == [k \in {} |-> Undefined]

\* No file was ever visited.
NoLint ==
  /\ configs = EmptyMap
  /\ projectMap = EmptyMap
  /\ diagnosticsMap = EmptyMap
  /\ hosts = <<>>
  /\ visits = <<>>

\* No diagnostic was ever reported.
NoReport ==
  /\ diagnostic = NoCall
  /\ reported = NoCall

\* No directory walk was started.
NoWalk ==
  /\ loopFile = <<>>
  /\ loopRoot = <<>>
  /\ loopDir = <<>>
  /\ lookupPaths = <<>>
  /\ loopPc = "done"
  /\ genStart = <<>>
  /\ genDirectory = <<>>
  /\ yielded = <<>>
  /\ genPc = "done"
  /\ pluginDir = <<>>
  /\ globalPaths = <<>>

\* No snapshot was ever asked for.
NoSnapshots ==
  /\ disk = EmptyMap
  /\ snapshots = EmptyMap
  /\ objects = <<>>
  /\ log = <<>>

Init ==
  /\ files \in {S \in SUBSET HostFiles : Cardinality(S) <= MaxHostFiles}
  /\ manifests \in HostManifests
  /\ options \in HostOptions
  /\ modulePaths = constructorModulePaths(ProjectRoot)
  /\ moduleCache = EmptyMap
  /\ nextObj = 0
  /\ history = <<>>
  /\ fm = NoCall
  /\ NoSnapshots
  /\ NoLint
  /\ NoReport
  /\ NoWalk

Next ==
  \E moduleNames \in ModuleNameLists, containingFile \in ContainingFiles :
    ResolveModuleNames(moduleNames, containingFile)

Spec == Init /\ [][Next]_vars

----------------------------------------------------------------------------
(* findModule on its own: the file system and the arguments are the inputs *)

MaxFiles == 3

FMDirectory == Proj
FMName == Rel(<<Seg("b")>>)
FMTarget == pathJoin(FMDirectory, FMName)
FMIndex == pathJoin(FMTarget, Rel(<<Seg("index")>>))
FMTypesPackage == pathJoin(TypeRoot, FMName)

TypedExts == {ExtTs, ExtTsx, ExtDts}
ScriptExts == {ExtJs, ExtJsx, ExtJson}

FMFiles ==
  {plusExt(FMTarget, e) : e \in TypedExts \cup ScriptExts}
    \cup {plusExt(FMIndex, e) : e \in TypedExts \cup ScriptExts}
    \cup {pathResolve(FMTarget, TypingsEntry), pathResolve(FMTarget, MainEntry)}
    \cup {plusExt(FMTypesPackage, ExtDts),
          pathResolve(FMTypesPackage, TypingsEntry),
          plusExt(pathJoin(FMTypesPackage, Rel(<<Seg("index")>>)), ExtDts)}

FMTypeRoots == {Undefined, List(<<>>), List(<<TypeRoot>>)}

\* The manifests of the types package: a type entry, text that is not JSON,
\* a type entry that is not a string.
TypesPackageManifests ==
  {[json |-> "object", typings |-> [str |-> TypingsEntry], index |-> Undefined],
   [json |-> "invalid"],
   [json |-> "object", typings |-> [nonstring |-> TRUE], index |-> Undefined]}

InitFM ==
  /\ files \in {S \in SUBSET FMFiles : Cardinality(S) <= MaxFiles}
  /\ manifests \in
       {m \in ManifestsOver({FMTarget, FMTypesPackage}, RawManifests) :
          FMTypesPackage \in DOMAIN m => m[FMTypesPackage] \in TypesPackageManifests}
  /\ options = [types |-> Undefined, typeRoots |-> Undefined]
  /\ modulePaths = <<>>
  /\ moduleCache = EmptyMap
  /\ nextObj = 0
  /\ history = <<>>
  /\ fm = NoCall
  /\ NoSnapshots
  /\ NoLint
  /\ NoReport
  /\ NoWalk

FindModuleCall(directory, name, typeRoots) ==
  /\ fm' = [directory |-> directory, name |-> name, typeRoots |-> typeRoots,
            result |-> findModule(directory, name, typeRoots)]
  /\ UNCHANGED <<files, manifests, options, modulePaths, moduleCache, nextObj, history>>
  /\ UNCHANGED <<snapshotVars, lintVars, reportVars, walkVars>>

NextFM ==
  \E typeRoots \in FMTypeRoots : FindModuleCall(FMDirectory, FMName, typeRoots)

SpecFM == InitFM /\ [][NextFM]_vars

----------------------------------------------------------------------------
(* Claims about findModule, checked under SpecFM *)

FMCallTarget == pathJoin(fm.directory, fm.name)
FMCallIndex == pathJoin(FMCallTarget, Rel(<<Seg("index")>>))

ExistingAt(base, exts) == {plusExt(base, e) : e \in exts} \cap files

\* What a well-formed manifest of directory d declares under field f, taken
\* from the raw document: the entry resolved against d, if it is a file.
ManifestEntry(d, f) ==
  IF /\ d \in DOMAIN manifests
     /\ manifests[d].json = "object"
     /\ manifests[d].typings # [nonstring |-> TRUE]
     /\ manifests[d].index # [nonstring |-> TRUE]
     /\ manifests[d][f] # Undefined
  THEN {pathResolve(d, manifests[d][f].str)} \cap files
  ELSE {}

\* The files a type package under one ambient type root offers.
TypesPackageFiles(root, name) ==
  LET t == pathJoin(root, name) IN
  ExistingAt(t, {ExtDts})
    \cup ManifestEntry(t, "typings")
    \cup ExistingAt(pathJoin(t, Rel(<<Seg("index")>>)), {ExtDts})

\* The candidates of each of the seven steps for the call recorded in fm.
StepCandidates(k) ==
  CASE k = 1 -> ExistingAt(FMCallTarget, TypedExts)
    [] k = 2 -> ManifestEntry(FMCallTarget, "typings")
    [] k = 3 -> IF fm.typeRoots = Undefined THEN {}
                ELSE UNION {TypesPackageFiles(fm.typeRoots.list[i], fm.name) :
                              i \in 1..Len(fm.typeRoots.list)}
    [] k = 4 -> ExistingAt(FMCallIndex, TypedExts)
    [] k = 5 -> ExistingAt(FMCallTarget, ScriptExts)
    [] k = 6 -> ManifestEntry(FMCallTarget, "index")
    [] k = 7 -> ExistingAt(FMCallIndex, ScriptExts)

\* C1: whenever the target has both a typed file (.ts, .tsx, .d.ts) and a
\* plain script (.js, .jsx, .json), findModule returns one of the typed files,
\* with or without type roots (relative and bare lookups).
C1_ExtensionPrecedence ==
  (/\ fm # NoCall
   /\ ExistingAt(FMCallTarget, TypedExts) # {}
   /\ ExistingAt(FMCallTarget, ScriptExts) # {})
  => (/\ fm.result # Undefined
      /\ fm.result.resolvedFileName \in ExistingAt(FMCallTarget, TypedExts))

C1_Witness ==
  /\ fm # NoCall
  /\ plusExt(FMCallTarget, ExtDts) \in files
  /\ plusExt(FMCallTarget, ExtJs) \in files
  /\ fm.result # Undefined
  /\ fm.result.resolvedFileName = plusExt(FMCallTarget, ExtDts)

\* C2: with no typed file at the target, a well-formed manifest whose type
\* entry is an existing file wins over target/index.d.ts.
C2_ManifestPrecedence ==
  (/\ fm # NoCall
   /\ ExistingAt(FMCallTarget, TypedExts) = {}
   /\ ManifestEntry(FMCallTarget, "typings") # {}
   /\ plusExt(FMCallIndex, ExtDts) \in files)
  => (/\ fm.result # Undefined
      /\ fm.result.resolvedFileName \in ManifestEntry(FMCallTarget, "typings")
      /\ fm.result.resolvedFileName # plusExt(FMCallIndex, ExtDts))

C2_Witness ==
  /\ fm # NoCall
  /\ ExistingAt(FMCallTarget, TypedExts) = {}
  /\ plusExt(FMCallIndex, ExtDts) \in files
  /\ fm.result # Undefined
  /\ fm.result.resolvedFileName = pathResolve(FMCallTarget, TypingsEntry)

\* C3: the result is a candidate of the first of the seven steps that has
\* one, and there is no result only if no step has a candidate; so a result of
\* steps 5-7 (a script) appears only when steps 1-4 have no candidate.
C3_TieBreakOrder ==
  fm # NoCall =>
    /\ (fm.result = Undefined) <=> (\A k \in 1..7 : StepCandidates(k) = {})
    /\ \A k \in 1..7 :
         (StepCandidates(k) # {} /\ \A j \in 1..(k - 1) : StepCandidates(j) = {})
           => (fm.result # Undefined /\ fm.result.resolvedFileName \in StepCandidates(k))

\* A script next to the target is returned although target/index.js exists
\* too, the type roots having been probed and found empty.
C3_Witness ==
  /\ fm # NoCall
  /\ fm.typeRoots = List(<<TypeRoot>>)
  /\ StepCandidates(5) # {}
  /\ StepCandidates(7) # {}
  /\ \A k \in 1..4 : StepCandidates(k) = {}
  /\ fm.result # Undefined
  /\ fm.result.resolvedFileName \in StepCandidates(5)

----------------------------------------------------------------------------
(* Claims about the host, checked under Spec *)

\* The lookups made so far: call c of the history, position i of its names.
Lookups == {<<c, i>> \in (1..Len(history)) \X (1..2) : i <= Len(history[c].moduleNames)}

DirOf(l) == pathDirname(history[l[1]].containingFile)
NameOf(l) == history[l[1]].moduleNames[l[2]]
ResultOf(l) == history[l[1]].results[l[2]]
HitOf(l) == history[l[1]].hits[l[2]]

IsRelative(name) == startsWithDot(name)
\* A package-style name: it starts neither with "." nor with "/".
IsBare(name) == ~startsWithDot(name) /\ ~name.abs

Before(l, m) == l[1] < m[1] \/ (l[1] = m[1] /\ l[2] < m[2])

IsScriptFile(p) ==
  /\ p # <<>>
  /\ Len(p[Len(p)]) >= 2
  /\ Txt(<<p[Len(p)][Len(p[Len(p)])]>>) \in ScriptExts

\* C4: a relative specifier whose resolved target is itself an existing
\* plain-script file resolves to that file.
C4_ExplicitExtensionResolves ==
  \A l \in Lookups :
    (/\ IsRelative(NameOf(l))
     /\ pathResolve(DirOf(l), NameOf(l)) \in files
     /\ IsScriptFile(pathResolve(DirOf(l), NameOf(l))))
    => (/\ ResultOf(l) # Undefined
        /\ ResultOf(l).resolvedFileName = pathResolve(DirOf(l), NameOf(l)))

\* C5: every successful resolution of a relative specifier is not external.
C5_RelativeNotExternal ==
  \A l \in Lookups :
    (IsRelative(NameOf(l)) /\ ResultOf(l) # Undefined)
      => ~ResultOf(l).isExternalLibraryImport

\* C6: every successful resolution of a bare specifier is external, whatever
\* options.types says; and when the package directory under the first search
\* root has no typed file next to it and a manifest whose type entry exists,
\* the result is that entry resolved against the package directory.
C6_BareExternal ==
  \A l \in Lookups :
    IsBare(NameOf(l)) =>
      /\ ResultOf(l) # Undefined => ResultOf(l).isExternalLibraryImport
      /\ LET package == pathJoin(modulePaths[1], NameOf(l)) IN
         (ExistingAt(package, TypedExts) = {} /\ ManifestEntry(package, "typings") # {})
           => (/\ ResultOf(l) # Undefined
               /\ ResultOf(l).resolvedFileName =
                    pathResolve(package, manifests[package].typings.str))

\* 'lib' resolves to node_modules/lib/types/index.d.ts, external, although
\* options.types is set and does not contain it.
C6_Witness ==
  \E l \in Lookups :
    /\ NameOf(l) = Lib
    /\ options.types = List(<<>>)
    /\ ResultOf(l) # Undefined
    /\ ResultOf(l).isExternalLibraryImport
    /\ ResultOf(l).resolvedFileName = pathResolve(LibPackage, TypingsEntry)

\* The node_modules of every directory from d up to the project root, nearest first.
RECURSIVE LocalDependencyDirs(_)
LocalDependencyDirs(d) ==
  IF d = ProjectRoot \/ d = <<>> THEN <<pathJoin(d, NodeModules)>>
  ELSE <<pathJoin(d, NodeModules)>> \o LocalDependencyDirs(pathDirname(d))

IsPrefix(p, q) == Len(p) <= Len(q) /\ SubSeq(q, 1, Len(p)) = p

\* C7: the search path of a call starts with the node_modules of every
\* directory from the containing file's directory up to the project root,
\* nearest first, before anything else.
C7_SearchPathOrdering ==
  \A c \in 1..Len(history) :
    IsPrefix(LocalDependencyDirs(pathDirname(history[c].containingFile)),
             searchPath(history[c].containingFile))

\* The type roots findModule is given at search root `root` for the name.
RootTypeRoots(root, name) ==
  IF options.types = Undefined \/ includes(options.types.list, name)
  THEN IF options.typeRoots # Undefined
       THEN {options.typeRoots.list[i] : i \in 1..Len(options.typeRoots.list)}
       ELSE {pathJoin(root, Rel(<<Seg("@types")>>))}
  ELSE {}

\* Every file some probe of findModule would accept for the target t.
TargetCandidates(t, typeRoots, name) ==
  ExistingAt(t, TypedExts \cup ScriptExts)
    \cup ExistingAt(pathJoin(t, Rel(<<Seg("index")>>)), TypedExts \cup ScriptExts)
    \cup ManifestEntry(t, "typings") \cup ManifestEntry(t, "index")
    \cup UNION {TypesPackageFiles(r, name) : r \in typeRoots}

\* Every file some probe of findModule at search root `root` would accept.
RootCandidates(root, name) ==
  TargetCandidates(pathJoin(root, name), RootTypeRoots(root, name), name)

\* The positions of the search roots that accept some file for the name.
AcceptingRoots(name) ==
  {r \in 1..Len(modulePaths) : RootCandidates(modulePaths[r], name) # {}}

\* The lookup l agrees with the first of the accepting roots rs, if any.
ShadowedBy(l, rs) ==
  IF rs = {} THEN ResultOf(l) = Undefined
  ELSE /\ ResultOf(l) # Undefined
       /\ ResultOf(l).resolvedFileName
            \in RootCandidates(modulePaths[CHOOSE r \in rs : \A q \in rs : r <= q], NameOf(l))

\* C8: the search roots are the project root's node_modules, its ancestors'
\* and then the global directories, and a bare lookup returns a file accepted
\* at the first root that accepts any; it returns nothing only if no root does.
C8_Shadowing ==
  /\ modulePaths = projectPathsOf(parents(ProjectRoot)) \o RuntimeGlobalPaths
  /\ \A l \in Lookups :
       IsBare(NameOf(l)) => ShadowedBy(l, AcceptingRoots(NameOf(l)))

\* 'lib' is a script package under the project's node_modules and a
\* declaration file under the global directory: the project's one is returned.
C8_Witness ==
  \E l \in Lookups :
    /\ NameOf(l) = Lib
    /\ RootCandidates(modulePaths[1], Lib) # {}
    /\ RootCandidates(modulePaths[Len(modulePaths)], Lib) # {}
    /\ ResultOf(l) # Undefined
    /\ ResultOf(l).resolvedFileName \in RootCandidates(modulePaths[1], Lib)

SameFileAndKind(r1, r2) ==
  IF r1 = Undefined \/ r2 = Undefined THEN r1 = r2
  ELSE r1.resolvedFileName = r2.resolvedFileName /\ r1.extension = r2.extension

\* C9: two lookups with the same directory and specifier return the same file
\* and kind, or no match both times, whatever was looked up in between.
C9_Idempotence ==
  \A l \in Lookups : \A m \in Lookups :
    (Before(l, m) /\ DirOf(l) = DirOf(m) /\ NameOf(l) = NameOf(m))
      => SameFileAndKind(ResultOf(l), ResultOf(m))

\* A lookup that found a module is repeated and served from the cache.
C9_Witness ==
  \E l \in Lookups : \E m \in Lookups :
    /\ Before(l, m) /\ DirOf(l) = DirOf(m) /\ NameOf(l) = NameOf(m)
    /\ ~HitOf(l) /\ HitOf(m)
    /\ ResultOf(l) # Undefined
    /\ ResultOf(m) = ResultOf(l)

\* C10: two relative lookups with the same resolved target get the same
\* cache entry, hence the identical object (or no match both times), the later
\* one from the cache; and no two keys of the cache denote one absolute path.
C10_NormalizedKeys ==
  /\ \A l \in Lookups : \A m \in Lookups :
       (/\ Before(l, m)
        /\ IsRelative(NameOf(l)) /\ IsRelative(NameOf(m))
        /\ pathResolve(DirOf(l), NameOf(l)) = pathResolve(DirOf(m), NameOf(m)))
       => (ResultOf(l) = ResultOf(m) /\ HitOf(m))
  /\ \A k1 \in DOMAIN moduleCache : \A k2 \in DOMAIN moduleCache :
       (k1.abs /\ k2.abs /\ normalizeFrom(k1.segs, <<>>) = normalizeFrom(k2.segs, <<>>))
         => k1 = k2

\* './b' from /proj and '../b' from /proj/src return one and the same object.
C10_Witness ==
  \E l \in Lookups : \E m \in Lookups :
    /\ Before(l, m)
    /\ IsRelative(NameOf(l)) /\ IsRelative(NameOf(m))
    /\ NameOf(l) # NameOf(m) /\ DirOf(l) # DirOf(m)
    /\ pathResolve(DirOf(l), NameOf(l)) = pathResolve(DirOf(m), NameOf(m))
    /\ ResultOf(l) # Undefined
    /\ ResultOf(m) = ResultOf(l)

\* No probe of findModule accepts a file for the lookup l: next to the
\* resolved target for a relative specifier, at every search root for a bare one.
NoProbeMatches(l) ==
  IF IsRelative(NameOf(l))
  THEN TargetCandidates(pathResolve(DirOf(l), NameOf(l)), {}, NameOf(l)) = {}
  ELSE AcceptingRoots(NameOf(l)) = {}

\* C11: a relative or bare specifier that matches no probe yields undefined at
\* its position, and every call returns one result per specifier it was given.
C11_AbsenceIsNotFailure ==
  /\ \A c \in 1..Len(history) :
       Len(history[c].results) = Len(history[c].moduleNames)
  /\ \A l \in Lookups :
       ((IsRelative(NameOf(l)) \/ IsBare(NameOf(l))) /\ NoProbeMatches(l))
         => ResultOf(l) = Undefined

----------------------------------------------------------------------------
(* ScriptSnapshot and the snapshot table of the host *)

\* new ScriptSnapshot(host, filename): nothing is read.
ScriptSnapshot(filename) == [filename |-> filename, script |-> Null]

\* `if (this.script)`: null and the empty string are both falsy.
truthy(script) == script # Null /\ script.text # <<>>

\* getContent of the object o: the script it holds afterwards, and whether
\* fs.readFileSync was called.
getContent(o) ==
  IF truthy(o.script) THEN [script |-> o.script, read |-> FALSE]
  ELSE [script |-> Txt(disk[o.filename]), read |-> TRUE]

\* String.prototype.substr(start, length), for 0 <= start.
substr(text, start, length) ==
  SubSeq(text, start + 1, IF start + length < Len(text) THEN start + length ELSE Len(text))

mapSet(map, key, value) ==
  [k \in DOMAIN map \cup {key} |-> IF k = key THEN value ELSE map[k]]

mapDelete(map, key) == [k \in DOMAIN map \ {key} |-> map[k]]

\* Mutant: the table is told about every request, present or not.
getScriptSnapshot_alwaysNew(objs, table, fileName) ==
  [objects |-> Append(objs, ScriptSnapshot(fileName)),
   snapshots |-> mapSet(table, fileName, Len(objs) + 1),
   result |-> Len(objs) + 1, created |-> TRUE, read |-> FALSE]

getScriptSnapshot(objs, table, fileName) ==
  IF fileName \notin DOMAIN table
  THEN [objects |-> Append(objs, ScriptSnapshot(fileName)),
        snapshots |-> mapSet(table, fileName, Len(objs) + 1),
        result |-> Len(objs) + 1, created |-> TRUE, read |-> FALSE]
  ELSE [objects |-> objs, snapshots |-> table,
        result |-> table[fileName], created |-> FALSE, read |-> FALSE]

\* Mutant: the content is dropped but the table keeps the snapshot.
dispose_keepsEntry(objs, table, s) ==
  [objects |-> [objs EXCEPT ![s].script = Null], snapshots |-> table]

\* ScriptSnapshot.dispose of the object s.
dispose(objs, table, s) ==
  [objects |-> [objs EXCEPT ![s].script = Null],
   snapshots |-> mapDelete(table, objs[s].filename)]

MaxOps == 5

GetScriptSnapshot(fileName) ==
  /\ Len(log) < MaxOps
  /\ \E out \in {getScriptSnapshot(objects, snapshots, fileName)} :
       /\ objects' = out.objects
       /\ snapshots' = out.snapshots
       /\ log' = Append(log, [op |-> "getScriptSnapshot", fileName |-> fileName,
                              object |-> out.result, created |-> out.created,
                              read |-> out.read])
  /\ UNCHANGED disk
  /\ UNCHANGED <<resolverVars, lintVars, reportVars, walkVars>>

GetText(s, start, end) ==
  /\ Len(log) < MaxOps
  /\ \E c \in {getContent(objects[s])} :
       /\ objects' = [objects EXCEPT ![s].script = c.script]
       /\ log' = Append(log, [op |-> "getText", fileName |-> objects[s].filename,
                              object |-> s, read |-> c.read, content |-> c.script,
                              onDisk |-> Txt(disk[objects[s].filename]),
                              result |-> Txt(substr(c.script.text, start, end - start))])
  /\ UNCHANGED <<disk, snapshots>>
  /\ UNCHANGED <<resolverVars, lintVars, reportVars, walkVars>>

GetLength(s) ==
  /\ Len(log) < MaxOps
  /\ \E c \in {getContent(objects[s])} :
       /\ objects' = [objects EXCEPT ![s].script = c.script]
       /\ log' = Append(log, [op |-> "getLength", fileName |-> objects[s].filename,
                              object |-> s, read |-> c.read, content |-> c.script,
                              onDisk |-> Txt(disk[objects[s].filename]),
                              result |-> [length |-> Len(c.script.text)]])
  /\ UNCHANGED <<disk, snapshots>>
  /\ UNCHANGED <<resolverVars, lintVars, reportVars, walkVars>>

Dispose(s) ==
  /\ Len(log) < MaxOps
  /\ \E out \in {dispose(objects, snapshots, s)} :
       /\ objects' = out.objects
       /\ snapshots' = out.snapshots
  /\ log' = Append(log, [op |-> "dispose", fileName |-> objects[s].filename, object |-> s])
  /\ UNCHANGED disk
  /\ UNCHANGED <<resolverVars, lintVars, reportVars, walkVars>>

\* Something outside the process rewrites a file.
WriteFile(fileName, text) ==
  /\ disk[fileName] # text
  /\ disk' = [disk EXCEPT ![fileName] = text]
  /\ UNCHANGED <<snapshots, objects, log>>
  /\ UNCHANGED <<resolverVars, lintVars, reportVars, walkVars>>

SnapA == Proj \o << <<"a", ".ts">> >>
SnapB == Proj \o << <<"b", ".ts">> >>
SnapFiles == {SnapA, SnapB}

\* The texts of a.ts: the empty file, one character, two characters.
Texts == {<<>>, <<"x">>, <<"x", "y">>}

Ranges == {<<0, 1>>, <<1, 2>>}

\* No module was ever resolved and no manifest read.
NoModules ==
  /\ manifests = EmptyMap
  /\ options = [types |-> Undefined, typeRoots |-> Undefined]
  /\ modulePaths = <<>>
  /\ moduleCache = EmptyMap
  /\ nextObj = 0
  /\ history = <<>>
  /\ fm = NoCall

NoResolver ==
  /\ files = {}
  /\ NoModules

InitSnap ==
  /\ NoResolver
  /\ NoLint
  /\ NoReport
  /\ NoWalk
  /\ disk \in {[f \in SnapFiles |-> IF f = SnapA THEN t ELSE <<"z">>] : t \in Texts}
  /\ snapshots = EmptyMap
  /\ objects = <<>>
  /\ log = <<>>

NextSnap ==
  \/ \E fileName \in SnapFiles : GetScriptSnapshot(fileName)
  \/ \E s \in 1..Len(objects) : \E r \in Ranges : GetText(s, r[1], r[2])
  \/ \E s \in 1..Len(objects) : GetLength(s)
  \/ \E s \in 1..Len(objects) : Dispose(s)
  \/ \E text \in Texts : WriteFile(SnapA, text)

SpecSnap == InitSnap /\ [][NextSnap]_vars

----------------------------------------------------------------------------
(* Claims about snapshots, checked under SpecSnap *)

Ops == 1..Len(log)
IsAccess(i) == log[i].op \in {"getText", "getLength"}
IsGet(i) == log[i].op = "getScriptSnapshot"
IsDispose(i) == log[i].op = "dispose"

\* Between the calls i and j: a dispose of the object o, a dispose of any
\* snapshot of the file f, a request for the snapshot of f.
ObjectDisposedBetween(o, i, j) ==
  \E d \in (i + 1)..(j - 1) : IsDispose(d) /\ log[d].object = o
FileDisposedBetween(f, i, j) ==
  \E d \in (i + 1)..(j - 1) : IsDispose(d) /\ log[d].fileName = f
RequestedBetween(f, i, j) ==
  \E g \in (i + 1)..(j - 1) : IsGet(g) /\ log[g].fileName = f

\* i and j are accesses to one object with no dispose of it in between.
SameLifetime(i, j) ==
  /\ i < j /\ IsAccess(i) /\ IsAccess(j)
  /\ log[i].object = log[j].object
  /\ ~ObjectDisposedBetween(log[i].object, i, j)

\* i is the first access to its object since the object was made or disposed.
FirstAccess(i) == IsAccess(i) /\ ~\E k \in Ops : SameLifetime(k, i)

\* C12: a dispose leaves no table entry for the file and no content in the
\* object; the next request for the file makes a new object, and the first
\* access to a snapshot reads the file as it is then.
C12_Disposal ==
  /\ \A i \in Ops : IsDispose(i) =>
       /\ ~RequestedBetween(log[i].fileName, i, Len(log) + 1)
            => log[i].fileName \notin DOMAIN snapshots
       /\ (\A k \in (i + 1)..Len(log) : ~(IsAccess(k) /\ log[k].object = log[i].object))
            => objects[log[i].object].script = Null
  /\ \A i \in Ops : \A j \in Ops :
       (/\ i < j /\ IsDispose(i) /\ IsGet(j)
        /\ log[i].fileName = log[j].fileName
        /\ ~RequestedBetween(log[i].fileName, i, j))
       => (/\ log[j].created
           /\ \A k \in 1..(j - 1) : log[k].object # log[j].object)
  /\ \A k \in Ops : FirstAccess(k) => (log[k].read /\ log[k].content = log[k].onDisk)

\* A snapshot of a.ts was read, disposed, the file rewritten, and the snapshot
\* asked for again returns the new text.
C12_Witness ==
  \E a \in Ops : \E d \in Ops : \E g \in Ops : \E k \in Ops :
    /\ a < d /\ d < g /\ g < k
    /\ IsAccess(a) /\ log[a].content.text # <<>>
    /\ IsDispose(d) /\ log[d].object = log[a].object
    /\ IsGet(g) /\ log[g].fileName = log[d].fileName /\ log[g].created
    /\ IsAccess(k) /\ log[k].object = log[g].object
    /\ log[k].read
    /\ log[k].content # log[a].content
    /\ log[k].content = log[k].onDisk

\* C13: making a snapshot reads nothing, the first access to it reads the
\* file, and every later access until a dispose reads nothing and sees the
\* content first read.
C13_LazyMemoized ==
  /\ \A i \in Ops : IsGet(i) => ~log[i].read
  /\ \A i \in Ops : FirstAccess(i) => log[i].read
  /\ \A i \in Ops : \A j \in Ops :
       SameLifetime(i, j) => (~log[j].read /\ log[j].content = log[i].content)

\* C14: every key of the table is the file name of its snapshot, and two
\* requests for one file with no dispose for that file in between return the
\* same object.
C14_OneSnapshotPerPath ==
  /\ \A f \in DOMAIN snapshots :
       snapshots[f] \in 1..Len(objects) /\ objects[snapshots[f]].filename = f
  /\ \A i \in Ops : \A j \in Ops :
       (/\ i < j /\ IsGet(i) /\ IsGet(j)
        /\ log[i].fileName = log[j].fileName
        /\ ~FileDisposedBetween(log[i].fileName, i, j))
       => log[i].object = log[j].object

\* a.ts is asked for twice, with the snapshot of b.ts made and disposed in
\* between, and both requests return the same object.
C14_Witness ==
  \E i \in Ops : \E d \in Ops : \E j \in Ops :
    /\ i < d /\ d < j
    /\ IsGet(i) /\ IsGet(j) /\ log[i].fileName = log[j].fileName
    /\ IsDispose(d) /\ log[d].fileName # log[i].fileName
    /\ log[i].created /\ ~log[j].created
    /\ log[i].object = log[j].object

----------------------------------------------------------------------------
(* The diagnostic translator *)

Num(n) == [num |-> n]

\* An optional number in a condition: undefined and 0 are both falsy.
truthyNumber(v) == v # Undefined /\ v.num # 0

isDiagnosticWithLocation(d) ==
  d.file # Undefined /\ truthyNumber(d.start) /\ truthyNumber(d.length)

\* SourceFile.getLineAndCharacterOfPosition of the engine, both 0-based: the
\* line is the last one that starts at or before the position.
getLineAndCharacterOfPosition(file, position) ==
  LET line == CHOOSE l \in 1..Len(file.lineStarts) :
                /\ file.lineStarts[l] <= position
                /\ l < Len(file.lineStarts) => file.lineStarts[l + 1] > position
  IN [line |-> line - 1, character |-> position - file.lineStarts[line]]

\* The switch over diagnostic.category.
categoryName(category) ==
  CASE category = "Warning" -> "warning"
    [] category = "Error" -> "error"
    [] category = "Suggestion" -> "suggestion"
    [] category = "Message" -> "message"
    [] OTHER -> ""

position(lineAndCharacter) ==
  [line |-> lineAndCharacter.line + 1, column |-> lineAndCharacter.character]

\* Mutant: the engine's 0-based line is passed on as it is.
reportLocation_zeroBased(file, start, length) ==
  [start |-> [line |-> getLineAndCharacterOfPosition(file, start).line,
              column |-> getLineAndCharacterOfPosition(file, start).character],
   end |-> [line |-> getLineAndCharacterOfPosition(file, start + length).line,
            column |-> getLineAndCharacterOfPosition(file, start + length).character]]

\* The loc of a location-based report.
reportLocation(file, start, length) ==
  [start |-> position(getLineAndCharacterOfPosition(file, start)),
   end |-> position(getLineAndCharacterOfPosition(file, start + length))]

\* reportDiagnostic: the sequence of its context.report calls.
reportDiagnostic(node, d) ==
  IF isDiagnosticWithLocation(d)
  THEN << [messageId |-> "tserror",
           loc |-> reportLocation(d.file, d.start.num, d.length.num),
           data |-> [category |-> categoryName(d.category), code |-> [string |-> d.code]]] >>
  ELSE << [node |-> node, messageId |-> "tserror",
           data |-> [category |-> categoryName(d.category), code |-> [string |-> d.code]]] >>

MaxStart == 4
MaxLength == 3

\* The Program node the rule listener is called with.
ProgramNode == [type |-> "Program"]

\* A source file of three lines, "ab\n", "c\n" and the rest.
SourceFile == [lineStarts |-> <<0, 3, 5>>]

Categories == {"Warning", "Error", "Suggestion", "Message"}

Diagnostics ==
  [file : {Undefined, SourceFile},
   start : {Undefined} \cup {Num(n) : n \in 0..MaxStart},
   length : {Undefined} \cup {Num(n) : n \in 0..MaxLength},
   category : Categories,
   code : {2322}]

ReportDiagnostic(node) ==
  /\ reported = NoCall
  /\ reported' = List(reportDiagnostic(node, diagnostic))
  /\ UNCHANGED diagnostic
  /\ UNCHANGED <<resolverVars, snapshotVars, lintVars, walkVars>>

InitReport ==
  /\ NoResolver
  /\ NoSnapshots
  /\ NoLint
  /\ diagnostic \in Diagnostics
  /\ reported = NoCall
  /\ NoWalk

NextReport == ReportDiagnostic(ProgramNode)

SpecReport == InitReport /\ [][NextReport]_vars

----------------------------------------------------------------------------
(* Claims about the diagnostic translator, checked under SpecReport *)

\* The diagnostic has a source file, a start offset and a nonzero length.
CarriesLocation(d) ==
  /\ d.file # Undefined
  /\ d.start # Undefined
  /\ d.length # Undefined /\ d.length.num # 0

\* C18: one report per diagnostic; it has a location range computed from
\* start and start+length when the diagnostic carries a file, a start offset
\* (0 included) and a nonzero length, and is anchored to the node otherwise.
C18_Translation ==
  reported # NoCall =>
    /\ Len(reported.list) = 1
    /\ CarriesLocation(diagnostic) =>
         /\ DOMAIN reported.list[1] = {"messageId", "loc", "data"}
         /\ reported.list[1].loc =
              reportLocation(diagnostic.file, diagnostic.start.num, diagnostic.length.num)
    /\ ~CarriesLocation(diagnostic) =>
         /\ DOMAIN reported.list[1] = {"messageId", "node", "data"}
         /\ reported.list[1].node = ProgramNode

\* The offset of a 1-based line and a 0-based column in the file.
offsetOf(file, pos) == file.lineStarts[pos.line] + pos.column

\* The column lies on the line: before the start of the next line, if any.
OnLine(file, pos) ==
  /\ pos.line \in 1..Len(file.lineStarts)
  /\ pos.column >= 0
  /\ pos.line < Len(file.lineStarts) =>
       file.lineStarts[pos.line] + pos.column < file.lineStarts[pos.line + 1]

\* C19: in a location-based report the lines are the engine's lines plus one,
\* the columns the engine's characters, and start and end are the positions of
\* the offsets start and start+length.
C19_Positions ==
  (reported # NoCall /\ "loc" \in DOMAIN reported.list[1]) =>
    LET loc == reported.list[1].loc
        s == getLineAndCharacterOfPosition(diagnostic.file, diagnostic.start.num)
        e == getLineAndCharacterOfPosition(diagnostic.file,
                                           diagnostic.start.num + diagnostic.length.num)
    IN /\ loc.start = [line |-> s.line + 1, column |-> s.character]
       /\ loc.end = [line |-> e.line + 1, column |-> e.character]
       /\ loc.start.line >= 1 /\ loc.end.line >= 1
       /\ OnLine(diagnostic.file, loc.start) /\ OnLine(diagnostic.file, loc.end)
       /\ offsetOf(diagnostic.file, loc.start) = diagnostic.start.num
       /\ offsetOf(diagnostic.file, loc.end) = diagnostic.start.num + diagnostic.length.num

\* A diagnostic at offset 2, the end of the first line, of length 2: its
\* report runs from line 1, column 2 to line 2, column 1.
C19_Witness ==
  /\ reported # NoCall
  /\ diagnostic.start = Num(2) /\ diagnostic.length = Num(2)
  /\ "loc" \in DOMAIN reported.list[1]
  /\ reported.list[1].loc = [start |-> [line |-> 1, column |-> 2],
                             end |-> [line |-> 2, column |-> 1]]

----------------------------------------------------------------------------
(* The session registry and the rule: getProject and checkTypes *)

TsConfigName == Rel(<< <<"tsconfig", ".json">> >>)

\* Mutant: the walk starts at the file-system root.
RECURSIVE findAboveIn_farthest(_, _, _)
findAboveIn_farthest(dirs, filename, i) ==
  IF i > Len(dirs) THEN Null
  ELSE IF isFile(Str(pathJoin(dirs[Len(dirs) + 1 - i], filename)))
       THEN Str(pathJoin(dirs[Len(dirs) + 1 - i], filename))
       ELSE findAboveIn_farthest(dirs, filename, i + 1)

RECURSIVE findAboveIn(_, _, _)
findAboveIn(dirs, filename, i) ==
  IF i > Len(dirs) THEN Null
  ELSE IF isFile(Str(pathJoin(dirs[i], filename)))
       THEN Str(pathJoin(dirs[i], filename))
       ELSE findAboveIn(dirs, filename, i + 1)

findAbove(directory, filename) == findAboveIn(parents(directory), filename, 1)

\* decodeConfig(configFile) returns a Config or throws.
decodeConfig(configFile) ==
  IF configs[configFile] = "valid" THEN [config |-> configFile] ELSE [thrown |-> TRUE]

\* The report of a config that does not decode.
ParseReport(node) ==
  [message |-> "Could not parse tsconfig.json: {{ error }}", node |-> node]

\* new ESLintServiceHost(projectRoot, config); `included` is what
\* findIncludedFiles finds for the config.
ESLintServiceHost(projectRoot, included) ==
  [projectRoot |-> projectRoot, files |-> included]

\* What getProject did: the project it returns, the registry and the hosts
\* afterwards, its reports, whether it decoded a config and made a host.
Got(project, map, hs, reports, decoded, constructed) ==
  [project |-> project, projectMap |-> map, hosts |-> hs, reports |-> reports,
   decoded |-> decoded, constructed |-> constructed]

\* Mutant: the registry is not consulted.
getProjectAt_noCache(configFile, node, included) ==
  IF configFile = Null
  THEN Got(Undefined, projectMap, hosts, <<>>, FALSE, FALSE)
  ELSE IF "thrown" \in DOMAIN decodeConfig(configFile.path)
  THEN Got(Undefined, projectMap, hosts, <<ParseReport(node)>>, TRUE, FALSE)
  ELSE Got([host |-> Len(hosts) + 1, language |-> Len(hosts) + 1],
           mapSet(projectMap, configFile.path,
                  [host |-> Len(hosts) + 1, language |-> Len(hosts) + 1]),
           Append(hosts, ESLintServiceHost(pathDirname(configFile.path), included)),
           <<>>, TRUE, TRUE)

\* getProject once findAbove has answered.
getProjectAt(configFile, node, included) ==
  IF configFile = Null
  THEN Got(Undefined, projectMap, hosts, <<>>, FALSE, FALSE)
  ELSE IF configFile.path \in DOMAIN projectMap
  THEN Got(projectMap[configFile.path], projectMap, hosts, <<>>, FALSE, FALSE)
  ELSE IF "thrown" \in DOMAIN decodeConfig(configFile.path)
  THEN Got(Undefined, projectMap, hosts, <<ParseReport(node)>>, TRUE, FALSE)
  ELSE Got([host |-> Len(hosts) + 1, language |-> Len(hosts) + 1],
           mapSet(projectMap, configFile.path,
                  [host |-> Len(hosts) + 1, language |-> Len(hosts) + 1]),
           Append(hosts, ESLintServiceHost(pathDirname(configFile.path), included)),
           <<>>, TRUE, TRUE)

getProject(filename, node, included) ==
  getProjectAt(findAbove(pathDirname(filename), TsConfigName), node, included)

RECURSIVE reportEach(_, _, _)
reportEach(node, diagnostics, i) ==
  IF i > Len(diagnostics) THEN <<>>
  ELSE reportDiagnostic(node, diagnostics[i]) \o reportEach(node, diagnostics, i + 1)

\* The loop over diagnosticsMap.get(filename); an array is truthy even if empty.
reportStored(node, diagnostics) ==
  IF diagnostics = Undefined THEN <<>> ELSE reportEach(node, diagnostics.list, 1)

\* What checkTypes did.
Checked(got, project, diagnostics, reports, engine, asked) ==
  [projectMap |-> got.projectMap, hosts |-> got.hosts,
   project |-> project, diagnostics |-> diagnostics, reports |-> reports,
   decoded |-> got.decoded, constructed |-> got.constructed,
   engine |-> engine, getProject |-> asked]

\* Mutant: a file without a project is reported.
checkTypesFirst_reportsNoProject(filename, node, got, engineDiags) ==
  IF got.project = Undefined
  THEN Checked(got, Undefined, Undefined, <<ParseReport(node)>>, FALSE, TRUE)
  ELSE IF filename \notin got.hosts[got.project.host].files
  THEN Checked(got, got.project, Undefined, got.reports, FALSE, TRUE)
  ELSE Checked(got, got.project, List(engineDiags),
               got.reports \o reportEach(node, engineDiags, 1), TRUE, TRUE)

\* Mutant: the project's file list is not looked at.
checkTypesFirst_ignoresFileList(filename, node, got, engineDiags) ==
  IF got.project = Undefined
  THEN Checked(got, Undefined, Undefined, got.reports, FALSE, TRUE)
  ELSE Checked(got, got.project, List(engineDiags),
               got.reports \o reportEach(node, engineDiags, 1), TRUE, TRUE)

\* checkTypes for a file name diagnosticsMap does not have; `got` is what
\* getProject did and engineDiags what the language service would answer.
checkTypesFirst(filename, node, got, engineDiags) ==
  IF got.project = Undefined
  THEN Checked(got, Undefined, Undefined, got.reports, FALSE, TRUE)
  ELSE IF filename \notin got.hosts[got.project.host].files
  THEN Checked(got, got.project, Undefined, got.reports, FALSE, TRUE)
  ELSE Checked(got, got.project, List(engineDiags),
               got.reports \o reportEach(node, engineDiags, 1), TRUE, TRUE)

\* Mutant: diagnosticsMap is not consulted.
checkTypes_noCache(filename, node, included, engineDiags) ==
  checkTypesFirst(filename, node, getProject(filename, node, included), engineDiags)

checkTypes(filename, node, included, engineDiags) ==
  IF filename \notin DOMAIN diagnosticsMap
  THEN checkTypesFirst(filename, node, getProject(filename, node, included), engineDiags)
  ELSE Checked(Got(Undefined, projectMap, hosts, <<>>, FALSE, FALSE), Undefined,
               diagnosticsMap[filename],
               reportStored(node, diagnosticsMap[filename]), FALSE, FALSE)

MaxVisits == 3

LintA == Proj \o << <<"a", ".ts">> >>
LintX == ProjSrc \o << <<"x", ".ts">> >>
LintC == <<Seg("other"), <<"c", ".ts">> >>
LintFiles == {LintA, LintX, LintC}

ProjConfig == pathJoin(Proj, TsConfigName)
SrcConfig == pathJoin(ProjSrc, TsConfigName)
ConfigFiles == {ProjConfig, SrcConfig}

\* A file inside /proj/src/tsconfig.json, which is then a directory.
InsideSrcConfig == SrcConfig \o << <<"base", ".json">> >>

\* The file systems of the visits: no path is both a file and a directory.
LintFileSystems ==
  {S \in SUBSET (ConfigFiles \cup {InsideSrcConfig}) :
     ~(SrcConfig \in S /\ InsideSrcConfig \in S)}

\* What findIncludedFiles may find for a config: every source file, or a.ts only.
IncludedSets == {LintFiles, {LintA}}

\* A diagnostic with a location and one without a file.
LocatedDiagnostic ==
  [file |-> SourceFile, start |-> Num(4), length |-> Num(1), category |-> "Error", code |-> 2322]
GlobalDiagnostic ==
  [file |-> Undefined, start |-> Undefined, length |-> Undefined,
   category |-> "Warning", code |-> 2322]

\* What the language service may answer for a file.
DiagLists == {<<>>, <<LocatedDiagnostic, GlobalDiagnostic>>}

\* A rule visits the Program node of a file.
CheckTypes(filename, node) ==
  /\ Len(visits) < MaxVisits
  /\ \E included \in IncludedSets : \E engineDiags \in DiagLists :
       \E out \in {checkTypes(filename, node, included, engineDiags)} :
         /\ projectMap' = out.projectMap
         /\ hosts' = out.hosts
         /\ diagnosticsMap' = mapSet(diagnosticsMap, filename, out.diagnostics)
         /\ visits' = Append(visits,
              [filename |-> filename,
               configFile |-> findAbove(pathDirname(filename), TsConfigName),
               configs |-> configs,
               project |-> out.project, diagnostics |-> out.diagnostics,
               reports |-> out.reports, decoded |-> out.decoded,
               constructed |-> out.constructed, engine |-> out.engine,
               getProject |-> out.getProject,
               projectMap |-> out.projectMap, hosts |-> Len(out.hosts)])
  /\ UNCHANGED <<files, configs>>
  /\ UNCHANGED <<manifests, options, modulePaths, moduleCache, nextObj, history, fm>>
  /\ UNCHANGED <<snapshotVars, reportVars, walkVars>>

\* Somebody edits a tsconfig.json: it decodes or it does not.
EditConfig(configFile, state) ==
  /\ configFile \in DOMAIN configs
  /\ configs[configFile] # state
  /\ configs' = [configs EXCEPT ![configFile] = state]
  /\ UNCHANGED <<projectMap, diagnosticsMap, hosts, visits>>
  /\ UNCHANGED <<resolverVars, snapshotVars, reportVars, walkVars>>

InitLint ==
  /\ files \in LintFileSystems
  /\ NoModules
  /\ NoSnapshots
  /\ NoReport
  /\ NoWalk
  /\ configs \in [files \cap ConfigFiles -> {"valid", "invalid"}]
  /\ projectMap = EmptyMap
  /\ diagnosticsMap = EmptyMap
  /\ hosts = <<>>
  /\ visits = <<>>

NextLint ==
  \/ \E filename \in LintFiles : CheckTypes(filename, ProgramNode)
  \/ \E configFile \in ConfigFiles : \E state \in {"valid", "invalid"} :
       EditConfig(configFile, state)

SpecLint == InitLint /\ [][NextLint]_vars

----------------------------------------------------------------------------
(* Claims about the registry and the rule, checked under SpecLint *)

Visits == 1..Len(visits)

\* The registry as it was before the visit v.
RegistryBefore(v) == IF v = 1 THEN EmptyMap ELSE visits[v - 1].projectMap
HostsBefore(v) == IF v = 1 THEN 0 ELSE visits[v - 1].hosts

\* The visit v is of a file under the config file c.
Under(v, c) == visits[v].configFile = Str(c)

\* C15: no two hosts are made for one config path; the registry only grows
\* and keeps its values; and once it has a config path, every getProject for
\* a file under that config returns the entry without decoding anything.
C15_SessionRegistry ==
  /\ \A i \in 1..Len(hosts) : \A j \in 1..Len(hosts) :
       hosts[i].projectRoot = hosts[j].projectRoot => i = j
  /\ \A v \in Visits :
       /\ \A c \in DOMAIN RegistryBefore(v) :
            c \in DOMAIN visits[v].projectMap /\ visits[v].projectMap[c] = RegistryBefore(v)[c]
       /\ visits[v].hosts = HostsBefore(v) + (IF visits[v].constructed THEN 1 ELSE 0)
       /\ visits[v].constructed =>
            /\ visits[v].configFile # Null
            /\ visits[v].configFile.path \notin DOMAIN RegistryBefore(v)
  /\ \A v \in Visits : \A c \in DOMAIN RegistryBefore(v) :
       (Under(v, c) /\ visits[v].getProject) =>
         /\ visits[v].project = RegistryBefore(v)[c]
         /\ ~visits[v].decoded /\ ~visits[v].constructed

\* a.ts made the session of /proj/tsconfig.json; the config was then broken;
\* the first visit of another file under it gets the same project.
C15_Witness ==
  \E v \in Visits : \E w \in Visits :
    /\ v < w
    /\ Under(v, ProjConfig) /\ Under(w, ProjConfig)
    /\ visits[v].filename # visits[w].filename
    /\ visits[v].constructed
    /\ visits[w].configs[ProjConfig] = "invalid"
    /\ visits[w].getProject /\ ~visits[w].decoded
    /\ visits[w].project = visits[v].project

\* The visit v failed to decode its config.
DecodeFailed(v) == visits[v].decoded /\ ~visits[v].constructed

\* C16: a failed decode gives exactly the one report and stores no session,
\* and every later visit of a file under that config, while the registry has
\* no session for it, decodes again and gets a session once the config is valid.
C16_FailureNotCached ==
  \A v \in Visits : DecodeFailed(v) =>
    /\ visits[v].reports = <<ParseReport(ProgramNode)>>
    /\ visits[v].configFile.path \notin DOMAIN visits[v].projectMap
    /\ \A w \in Visits :
         (/\ v < w
          /\ visits[w].configFile = visits[v].configFile
          /\ visits[v].configFile.path \notin DOMAIN RegistryBefore(w))
         => (/\ visits[w].decoded
             /\ visits[w].configs[visits[w].configFile.path] = "valid"
                  => visits[w].constructed)

\* C17: a visit of a file with no tsconfig.json above it reports nothing and
\* makes no session, the first time and every time.
C17_NoProject ==
  \A v \in Visits : visits[v].configFile = Null =>
    /\ visits[v].reports = <<>>
    /\ ~visits[v].constructed /\ ~visits[v].decoded /\ ~visits[v].engine
    /\ visits[v].projectMap = RegistryBefore(v)
    /\ visits[v].hosts = HostsBefore(v)

\* c.ts, which has no config above it, is visited after a session was made
\* for another file.
C17_Witness ==
  \E v \in Visits : \E w \in Visits :
    /\ v < w
    /\ visits[v].constructed
    /\ visits[w].filename = LintC
    /\ visits[w].configFile = Null
    /\ visits[w].getProject
    /\ visits[w].reports = <<>>

\* C20: after the first visit of a file name, every visit of it asks neither
\* the engine nor getProject and reports the diagnostics the first visit
\* stored, in their order.
C20_DiagnosticsCache ==
  \A v \in Visits : \A w \in Visits :
    (v < w /\ visits[v].filename = visits[w].filename) =>
      /\ ~visits[w].engine /\ ~visits[w].getProject
      /\ ~visits[w].decoded /\ ~visits[w].constructed
      /\ visits[w].diagnostics = visits[v].diagnostics
      /\ visits[w].reports = reportStored(ProgramNode, visits[v].diagnostics)

\* A file with two diagnostics is visited twice: the second visit reports
\* both again without the engine.
C20_Witness ==
  \E v \in Visits : \E w \in Visits :
    /\ v < w /\ visits[v].filename = visits[w].filename
    /\ visits[v].engine
    /\ visits[v].diagnostics = List(<<LocatedDiagnostic, GlobalDiagnostic>>)
    /\ ~visits[w].engine
    /\ Len(visits[w].reports) = 2
    /\ visits[w].reports = visits[v].reports

\* The directory d and every directory above it, the root included.
Ancestors(d) == {SubSeq(d, 1, k) : k \in 0..Len(d)}

\* A directory exists at p when some file lies below it.
IsDirectory(p) == \E f \in files : Len(f) > Len(p) /\ SubSeq(f, 1, Len(p)) = p

\* The directories at or above d that hold a regular file tsconfig.json.
ConfigDirs(d) == {a \in Ancestors(d) : pathJoin(a, TsConfigName) \in files}

\* C21: the config found for a visited file is the tsconfig.json of the
\* deepest directory at or above the file's directory that has a regular file
\* of that name, and null only when there is none.
C21_NearestConfig ==
  \A v \in Visits :
    LET d == pathDirname(visits[v].filename) IN
    /\ (visits[v].configFile = Null) <=> (ConfigDirs(d) = {})
    /\ \A a \in ConfigDirs(d) :
         (\A b \in ConfigDirs(d) : Len(b) <= Len(a))
           => visits[v].configFile = Str(pathJoin(a, TsConfigName))

\* x.ts is visited with a tsconfig.json in /proj/src and another in /proj:
\* the one of /proj/src is found.
C21_Witness ==
  \E v \in Visits :
    /\ visits[v].filename = LintX
    /\ {ProjConfig, SrcConfig} \subseteq files
    /\ visits[v].configFile = Str(SrcConfig)

\* x.ts is visited while /proj/src/tsconfig.json is a directory: the
\* tsconfig.json of /proj is found.
C21_WitnessDirectory ==
  \E v \in Visits :
    /\ visits[v].filename = LintX
    /\ IsDirectory(SrcConfig)
    /\ visits[v].configFile = Str(ProjConfig)

----------------------------------------------------------------------------
(* Manifest failures, checked under SpecFM *)

\* The package.json of d cannot be used: its text is not JSON, or one of the
\* two fields the decoder reads is not a string.
Malformed(d) ==
  /\ d \in DOMAIN manifests
  /\ \/ manifests[d].json # "object"
     \/ manifests[d].typings = [nonstring |-> TRUE]
     \/ manifests[d].index = [nonstring |-> TRUE]

NoManifest(d) == d \notin DOMAIN manifests \/ Malformed(d)

\* findModule and findTypes with `pkg` null: the probes that remain.
findModuleNoManifest(directory, name, typeRoots) ==
  LET target == pathJoin(directory, name)
      isGlobal == typeRoots # Undefined
      index == pathJoin(target, Rel(<<Seg("index")>>))
  IN orElse(findAny(target, TS_EXTENSIONS, isGlobal),
     orElse(IF typeRoots # Undefined
            THEN findInTypeRoots(typeRoots.list, name, 1)
            ELSE Undefined,
     orElse(findAny(index, TS_EXTENSIONS, isGlobal),
     orElse(findAny(target, JS_EXTENSIONS, isGlobal),
            findAny(index, JS_EXTENSIONS, isGlobal)))))

findTypesNoManifest(target) ==
  orElse(findAny(target, <<ExtDts>>, TRUE),
         findAny(pathJoin(target, Rel(<<Seg("index")>>)), <<ExtDts>>, TRUE))

\* C22: for a directory whose package.json is missing or malformed,
\* loadPackage gives null, and findModule and findTypes return what their
\* other probes give.
C22_ManifestFailures ==
  fm # NoCall =>
    /\ NoManifest(FMCallTarget) =>
         /\ loadPackage(FMCallTarget) = Null
         /\ fm.result = findModuleNoManifest(fm.directory, fm.name, fm.typeRoots)
    /\ fm.typeRoots # Undefined =>
         \A i \in 1..Len(fm.typeRoots.list) :
           NoManifest(pathJoin(fm.typeRoots.list[i], fm.name)) =>
             /\ loadPackage(pathJoin(fm.typeRoots.list[i], fm.name)) = Null
             /\ findTypes(pathJoin(fm.typeRoots.list[i], fm.name))
                  = findTypesNoManifest(pathJoin(fm.typeRoots.list[i], fm.name))

\* The manifest names an existing main script, but its type entry is not a
\* string: the main script is not returned.
C22_Witness ==
  /\ fm # NoCall
  /\ FMCallTarget \in DOMAIN manifests
  /\ manifests[FMCallTarget].json = "object"
  /\ manifests[FMCallTarget].typings = [nonstring |-> TRUE]
  /\ manifests[FMCallTarget].index = [str |-> MainEntry]
  /\ pathResolve(FMCallTarget, MainEntry) \in files
  /\ fm.result = Undefined

----------------------------------------------------------------------------
(* The allow-list of type packages, checked under Spec *)

\* options.types is unset or lists the name.
Allowed(name) ==
  \/ options.types = Undefined
  \/ \E i \in 1..Len(options.types.list) : options.types.list[i] = name

\* The ambient type roots of the host: options.typeRoots, or the @types
\* directory of every search root.
AmbientTypeRoots ==
  IF options.typeRoots # Undefined
  THEN {options.typeRoots.list[i] : i \in 1..Len(options.typeRoots.list)}
  ELSE {pathJoin(modulePaths[r], Rel(<<Seg("@types")>>)) : r \in 1..Len(modulePaths)}

\* The file f lies below the directory d.
Below(f, d) == Len(f) > Len(d) /\ SubSeq(f, 1, Len(d)) = d

C23_WitnessExcluded ==
  \E l \in Lookups :
    /\ NameOf(l) = Lib
    /\ options.types = List(<<>>)
    /\ TypesPackageFiles(pathJoin(modulePaths[1], Rel(<<Seg("@types")>>)), Lib) # {}
    /\ ResultOf(l) = Undefined

----------------------------------------------------------------------------
(* Directory walks, step by step: the search-path loop of the JavaScript    *)
(* host (resolveModuleNames, getResolvedModuleWithFailedLookupLocations-    *)
(* FromCache) and the generator parents(directory)                          *)

MaxLookupPaths == 5

\* lookupPaths.push(..): the array holds at most MaxLookupPaths entries.
push(array, entry) ==
  IF Len(array) < MaxLookupPaths THEN Append(array, entry) ELSE array

\* new ESLintServiceHost(projectRoot, ..): globalPaths is computed from the
\* place the plugin is installed in; the host can then be asked.
Construct ==
  /\ loopPc = "new"
  /\ globalPaths' = globalPathsOf(pluginDir)
  /\ loopPc' = "loop"
  /\ UNCHANGED <<loopFile, loopRoot, loopDir, lookupPaths, pluginDir>>
  /\ UNCHANGED <<genStart, genDirectory, yielded, genPc>>
  /\ UNCHANGED <<resolverVars, snapshotVars, lintVars, reportVars>>

\* One turn of `while (dir != this.projectRoot)`.
LoopStep ==
  /\ loopPc = "loop"
  /\ loopDir # loopRoot
  /\ lookupPaths' = push(lookupPaths, pathJoin(loopDir, NodeModules))
  /\ loopDir' = pathDirname(loopDir)
  /\ UNCHANGED <<loopFile, loopRoot, loopPc, genStart, genDirectory, yielded, genPc>>
  /\ UNCHANGED <<pluginDir, globalPaths>>
  /\ UNCHANGED <<resolverVars, snapshotVars, lintVars, reportVars>>

\* The loop ends; this.modulePaths is appended.
LoopExit ==
  /\ loopPc = "loop"
  /\ loopDir = loopRoot
  /\ lookupPaths' = lookupPaths \o projectPathsOf(parents(loopRoot)) \o globalPaths
  /\ loopPc' = "done"
  /\ UNCHANGED <<loopFile, loopRoot, loopDir, genStart, genDirectory, yielded, genPc>>
  /\ UNCHANGED <<pluginDir, globalPaths>>
  /\ UNCHANGED <<resolverVars, snapshotVars, lintVars, reportVars>>

\* One turn of `while (parent != directory)` in parents: yield directory.
GenStep ==
  /\ genPc = "loop"
  /\ pathDirname(genDirectory) # genDirectory
  /\ yielded' = Append(yielded, genDirectory)
  /\ genDirectory' = pathDirname(genDirectory)
  /\ UNCHANGED <<genStart, genPc, loopFile, loopRoot, loopDir, lookupPaths, loopPc>>
  /\ UNCHANGED <<pluginDir, globalPaths>>
  /\ UNCHANGED <<resolverVars, snapshotVars, lintVars, reportVars>>

\* The loop of parents ends; the last directory is yielded.
GenLast ==
  /\ genPc = "loop"
  /\ pathDirname(genDirectory) = genDirectory
  /\ yielded' = Append(yielded, genDirectory)
  /\ genPc' = "done"
  /\ UNCHANGED <<genStart, genDirectory, loopFile, loopRoot, loopDir, lookupPaths, loopPc>>
  /\ UNCHANGED <<pluginDir, globalPaths>>
  /\ UNCHANGED <<resolverVars, snapshotVars, lintVars, reportVars>>

\* The files the engine asks about: sources of the project, a package of
\* the project, a types package of an ancestor's node_modules, a file of a
\* global type root, the engine's own library.
LoopFiles ==
  {Proj \o << <<"a", ".ts">> >>,
   ProjSrc \o << <<"x", ".ts">> >>,
   ProjSrc \o <<Seg("deep"), <<"y", ".ts">> >>,
   LibPackage \o << <<"index", ".d", ".ts">> >>,
   <<Seg("node_modules"), Seg("@types"), Seg("n"), <<"index", ".d", ".ts">> >>,
   <<Seg("glob"), <<"lib", ".d", ".ts">> >>,
   <<Seg("ts"), Seg("lib"), <<"lib", ".d", ".ts">> >>}

LoopRoots == {<<>>, Proj, ProjSrc}

GenStarts == {<<>>, Proj, ProjSrc, ProjSrc \o <<Seg("deep")>>, LibPackage}

\* Where the plugin may be installed: a checkout of its own, a build
\* directory below one, the node_modules of a project.
PluginDirs ==
  {PluginDir,
   <<Seg("opt"), Seg("plugin"), Seg("dist")>>,
   Proj \o <<Seg("node_modules"), Seg("plugin")>>}

InitWalk ==
  /\ NoResolver
  /\ NoSnapshots
  /\ NoLint
  /\ NoReport
  /\ loopFile \in LoopFiles
  /\ loopRoot \in LoopRoots
  /\ loopDir = pathDirname(loopFile)
  /\ lookupPaths = <<>>
  /\ loopPc = "new"
  /\ pluginDir \in PluginDirs
  /\ globalPaths = <<>>
  /\ genStart \in GenStarts
  /\ genDirectory = genStart
  /\ yielded = <<>>
  /\ genPc = "loop"

NextWalk == Construct \/ LoopStep \/ LoopExit \/ GenStep \/ GenLast

SpecWalk == InitWalk /\ [][NextWalk]_vars

\* Both walks are straight-line code: each keeps running while it can.
SpecWalkFair ==
  /\ SpecWalk
  /\ WF_vars(Construct \/ LoopStep \/ LoopExit)
  /\ WF_vars(GenStep \/ GenLast)

\* C24: the search-path loop comes to its end for every containing file.
C24_LoopTerminates == <>(loopPc = "done")

\* What parents(genStart) has yielded: it starts with genStart, every later
\* element is the parent of the one before, no directory comes twice, the
\* last is the file-system root, and it is what every walk from genStart gives.
ParentsSequence ==
  /\ yielded # <<>>
  /\ yielded[1] = genStart
  /\ \A i \in 2..Len(yielded) : yielded[i] = pathDirname(yielded[i - 1])
  /\ \A i \in 1..Len(yielded) : \A j \in 1..Len(yielded) :
       yielded[i] = yielded[j] => i = j
  /\ yielded[Len(yielded)] = <<>>
  /\ yielded = parents(genStart)

\* C25: parents(d) comes to its end, and has then yielded d and its
\* ancestors in order, each once, up to the root.
C25_Parents ==
  /\ <>(genPc = "done")
  /\ [](genPc = "done" => ParentsSequence)

\* parents("/proj/src/deep") has yielded four directories.
C25_Witness ==
  /\ genPc = "done"
  /\ genStart = ProjSrc \o <<Seg("deep")>>
  /\ Len(yielded) = 4

Range(seq) == {seq[i] : i \in 1..Len(seq)}

\* C26: globalPaths holds every global directory of the runtime and no
\* node_modules directory of an ancestor of the plugin's directory, wherever
\* the plugin is installed.
C26_GlobalPaths ==
  loopPc # "new" =>
    /\ \A i \in 1..Len(RuntimeGlobalPaths) :
         RuntimeGlobalPaths[i] \in Range(globalPaths)
    /\ \A i \in 1..Len(parents(pluginDir)) :
         pathJoin(parents(pluginDir)[i], NodeModules) \notin Range(globalPaths)

-----------------------------------------------------------------------------
(* Files outside the project's file list                                    *)

\* Visit v found a project whose host does not list the visited file.
OutsideFileList(v) ==
  /\ visits[v].project # Undefined
  /\ visits[v].filename \notin hosts[visits[v].project.host].files

\* C27: a visit of a file that has a project but is not in the host's file
\* list asks the engine for nothing and reports nothing, and so does every
\* later visit of that file.
C27_OutsideFileList ==
  \A v \in Visits : OutsideFileList(v) =>
    /\ ~visits[v].engine
    /\ visits[v].reports = <<>>
    /\ visits[v].diagnostics = Undefined
    /\ \A w \in Visits :
         (v < w /\ visits[w].filename = visits[v].filename) =>
           ~visits[w].engine /\ visits[w].reports = <<>>

\* x.ts is visited twice; its project, made for a.ts, lists a.ts only and
\* had diagnostics for it.
C27_Witness ==
  \E u \in Visits : \E v \in Visits : \E w \in Visits :
    /\ u < v /\ v < w
    /\ visits[u].filename = LintA /\ visits[u].constructed
    /\ visits[u].reports # <<>>
    /\ visits[v].filename = LintX /\ visits[w].filename = LintX
    /\ OutsideFileList(v)
    /\ visits[v].project = visits[u].project
    /\ visits[w].reports = <<>>

-----------------------------------------------------------------------------
(* The cache against the search it stands for                               *)

\* The same module, or no module both times.
SameModule(r1, r2) ==
  IF r1 = Undefined \/ r2 = Undefined THEN r1 = r2
  ELSE /\ r1.resolvedFileName = r2.resolvedFileName
       /\ r1.extension = r2.extension
       /\ r1.isExternalLibraryImport = r2.isExternalLibraryImport

\* C28: every lookup of the host returns what the search without a cache
\* computes for its directory and specifier.
C28_CacheTransparency ==
  \A l \in Lookups :
    SameModule(ResultOf(l),
               moduleLookupNoCache(DirOf(l), NameOf(l), options, modulePaths))

-----------------------------------------------------------------------------
(* Disposing a snapshot that is no longer the table's                       *)

\* C29: a snapshot handed out by getScriptSnapshot stays the table's entry
\* for its file until that very snapshot is disposed; the dispose of another
\* (older) snapshot of the file does not remove it.
C29_StaleDispose ==
  \A g \in Ops :
    (/\ IsGet(g)
     /\ \A k \in (g + 1)..Len(log) :
          ~(IsDispose(k) /\ log[k].object = log[g].object))
    => (/\ log[g].fileName \in DOMAIN snapshots
        /\ snapshots[log[g].fileName] = log[g].object)

-----------------------------------------------------------------------------
(* The kind findModule reports against the file it returns                  *)

\* C30: the file name of the module findModule returns ends with the
\* extension the module reports.
C30_KindMatchesFile ==
  (fm # NoCall /\ fm.result # Undefined)
    => pathEndsWith(fm.result.resolvedFileName, fm.result.extension)

====
